---- MODULE Spec2Model ----
(***************************************************************************)
(* Model of backend/app.py: the HealthcareModelPredictor class, the module *)
(* global `predictor`, and the Flask request handlers built on it.         *)
(*                                                                         *)
(* Probabilities and thresholds are in thousandths (0.286 is 286).         *)
(* A Python value that may be None is None (the empty tuple) or Some(v).   *)
(* A raised exception is a record [ok |-> FALSE, exc |-> <class name>].    *)
(* Every step leaves in `request` what was asked and in `response` what    *)
(* the step returned.                                                      *)
(***************************************************************************)
EXTENDS Integers, Sequences, FiniteSets, TLC

VARIABLES predictor, request, response

vars == <<predictor, request, response>>

None == <<>>
Some(v) == <<v>>
Val(x) == x[1]

(***************************************************************************)
(* Bounds of the model.                                                    *)
(***************************************************************************)
MaxBatch == 3
MaxRows == 2

(***************************************************************************)
(* Program constants.                                                      *)
(***************************************************************************)
DefaultThreshold == 500
TrainedThreshold == 286
CriticalCut == 800
VeryHighCut == 600
HighCut == 400
ModerateCut == 200
ImmediateCut == 700
MaxBatchSize == 100
MaxFileRows == 1000

(***************************************************************************)
(* The classifier objects an artifact can hold.  n_features_in_ and         *)
(* feature_importances_ are optional attributes of the estimator;          *)
(* zero_proba is what predict_proba answers for the all-zero row, None     *)
(* when that call raises.                                                  *)
(***************************************************************************)
ModelObjects ==
    { [ n_features_in |-> None, feature_importances |-> None, zero_proba |-> None ],
      [ n_features_in |-> Some(2), feature_importances |-> Some(<<0, 600>>),
        zero_proba |-> Some(250) ],
      [ n_features_in |-> None,
        feature_importances |-> Some(<<300, 250, 200, 150, 60, 40>>),
        zero_proba |-> None ] }

(***************************************************************************)
(* HealthcareModelPredictor.__init__                                       *)
(***************************************************************************)
NewPredictor(optimal_threshold) ==
    [ exists            |-> TRUE,
      optimal_threshold |-> optimal_threshold,
      model             |-> None,
      scaler            |-> None,
      encoder           |-> None,
      feature_names     |-> None,
      is_loaded         |-> FALSE ]

\* the module global before load_models() has run: predictor = None
NoPredictor ==
    [ exists            |-> FALSE,
      optimal_threshold |-> None,
      model             |-> None,
      scaler            |-> None,
      encoder           |-> None,
      feature_names     |-> None,
      is_loaded         |-> FALSE ]

\* `predictor and predictor.is_loaded`
Ready(p) == p.exists /\ p.is_loaded

(***************************************************************************)
(* What open() and pickle.load() can give load_model.                      *)
(***************************************************************************)
\* a value under 'optimal_threshold' that is no number, such as the string '0.35'
TextThreshold == <<"str", "0.35">>

BundledThresholds == { None, Some(0), Some(400), TextThreshold }

Artifacts ==
    { [kind |-> "missing"], [kind |-> "corrupt"] }
    \cup { [kind |-> "bare", model |-> m] : m \in ModelObjects }
    \cup { [kind |-> "dict", model |-> m, scaler |-> None, encoder |-> None,
            feature_names |-> None, optimal_threshold |-> t] :
              m \in {None} \cup { Some(x) : x \in ModelObjects },
              t \in BundledThresholds }
    \cup { [kind |-> "dict", model |-> Some(m), scaler |-> Some("scaler"),
            encoder |-> Some("encoder"),
            feature_names |-> Some(<<"age", "time_in_hospital">>),
            optimal_threshold |-> None] : m \in ModelObjects }

\* isinstance(t, (int, float)) of a threshold that is not None
IsNumber(t) == Len(t) = 1

\* Python truthiness of self.optimal_threshold (None and 0 are falsy, a non-empty
\* string is truthy)
Truthy(t) == t # None /\ (IsNumber(t) => Val(t) # 0)

\* line 64: f"{self.optimal_threshold:.3f}" raises for a value that is no number
FormatRaises(p) == Truthy(p.optimal_threshold) /\ ~IsNumber(p.optimal_threshold)

\* lines 42-54: the fields after the artifact has been taken apart
Unpacked(p, art) ==
    IF art.kind = "dict"
    THEN [p EXCEPT !.model = art.model,
                   !.scaler = art.scaler,
                   !.encoder = art.encoder,
                   !.feature_names = art.feature_names,
                   !.optimal_threshold =
                       IF p.optimal_threshold = None /\ art.optimal_threshold # None
                       THEN art.optimal_threshold
                       ELSE p.optimal_threshold]
    ELSE [p EXCEPT !.model = Some(art.model)]

\* lines 63-67: a falsy threshold becomes the default
WithDefaultThreshold(p) ==
    IF Truthy(p.optimal_threshold)
    THEN p
    ELSE [p EXCEPT !.optimal_threshold = Some(DefaultThreshold)]

\* a failure branch that marks the object as not loaded
LoadFailureResets(p) == [p EXCEPT !.is_loaded = FALSE]

\* lines 71-76: the except branches leave the object as the try block left it
LoadFailure(p) == p

\* HealthcareModelPredictor.load_model: the object afterwards and the value returned.
\* is_loaded is set at line 56, before the statements of lines 57-67 that can raise.
LoadModel(p, art) ==
    IF art.kind \in {"missing", "corrupt"}
    THEN [pred |-> LoadFailure(p), ret |-> FALSE]
    ELSE LET q == [Unpacked(p, art) EXCEPT !.is_loaded = TRUE]
         IN  IF FormatRaises(q)
             THEN [pred |-> LoadFailure(q), ret |-> FALSE]
             ELSE [pred |-> WithDefaultThreshold(q), ret |-> TRUE]

(***************************************************************************)
(* A cell of a patient record: a number, the float nan (an empty CSV       *)
(* cell), or a non-empty string.  Identifiers are strings, written as      *)
(* tuples such as <<"caller", 0>>.                                         *)
(***************************************************************************)
Num(n) == <<"num", n>>
NaN == <<"nan">>
Str(s) == <<"str", s>>

\* isinstance(value, (int, float))
IsNumeric(value) == value[1] \in {"num", "nan"}

IsNaN(value) == value[1] = "nan"

(***************************************************************************)
(* A patient record (a dict), as far as the prediction path looks at it:   *)
(*   items     its keys and cells, in the order of the dict                *)
(*   transform what scaler.transform does with the row, if there is a      *)
(*             scaler                                                      *)
(*   predict   what model.predict_proba does with the row                  *)
(*   proba     the positive-class probability it returns                   *)
(***************************************************************************)
Record(items, transform, predict, proba) ==
    [ kind |-> "dict", items |-> items,
      transform |-> transform, predict |-> predict, proba |-> proba ]

\* list(patient_data.keys())
Keys(rec) == [ i \in 1..Len(rec.items) |-> rec.items[i][1] ]

\* key in patient_data
Has(rec, key) == \E i \in 1..Len(rec.items) : rec.items[i][1] = key

\* patient_data[key]
Get(rec, key) == rec.items[CHOOSE i \in 1..Len(rec.items) : rec.items[i][1] = key][2]

\* patient_data[key] = value: a new key goes to the end of the dict
Put(rec, key, value) ==
    IF Has(rec, key)
    THEN [rec EXCEPT !.items = [ i \in 1..Len(rec.items) |->
                                   IF rec.items[i][1] = key THEN <<key, value>>
                                   ELSE rec.items[i] ]]
    ELSE [rec EXCEPT !.items = Append(rec.items, <<key, value>>)]

\* a JSON value that is no mapping: a string, a number
NonMapping(kind) == [ kind |-> kind ]

Raise(exc) == [ ok |-> FALSE, exc |-> exc ]

\* hasattr(self.model, 'n_features_in_')
DeclaresCount(p) == p.model # None /\ Val(p.model).n_features_in # None

\* a list of columns to drop that leaves the identifier in
columns_to_drop_without_patient_id == { "encounter_id", "patient_nbr", "readmitted" }

\* line 94
columns_to_drop == { "encounter_id", "patient_nbr", "patient_id", "readmitted" }

\* lines 95-97: the columns left, in their order
Dropped(columns) ==
    LET keep(col) == col \notin columns_to_drop
    IN  SelectSeq(columns, keep)

\* a selection of the last N columns
LastColumns(columns, expected_features) ==
    SubSeq(columns, Len(columns) - expected_features + 1, Len(columns))

\* line 113: data.iloc[:, :expected_features]
FirstColumns(columns, expected_features) == SubSeq(columns, 1, expected_features)

\* HealthcareModelPredictor.prepare_data: the columns of the row handed on, or the
\* error raised
PrepareData(p, rec) ==
    LET columns == Dropped(Keys(rec))
        expected_features == Val(Val(p.model).n_features_in)
    IN  IF DeclaresCount(p) /\ Len(columns) < expected_features
        THEN Raise("ValueError")
        ELSE LET data == IF DeclaresCount(p) /\ Len(columns) > expected_features
                         THEN FirstColumns(columns, expected_features)
                         ELSE columns
             IN  IF p.scaler # None /\ rec.transform # "ok"
                 THEN Raise(rec.transform)
                 ELSE [ ok |-> TRUE, columns |-> data ]

\* a strict comparison in place of >=
AtLeastStrict(proba, cut) == proba > cut

\* the comparison of lines 142-143
AtLeast(proba, cut) == proba >= cut

\* lines 142-143: 1 if y_pred_proba >= threshold else 0
Label(proba, threshold) == IF AtLeast(proba, threshold) THEN 1 ELSE 0

\* the ladder with cutoffs that exclude their lower bound
RiskLevelStrict(proba) ==
    IF proba > CriticalCut THEN <<"red", "CRITICAL">>
    ELSE IF proba > VeryHighCut THEN <<"orange", "VERY HIGH">>
    ELSE IF proba > HighCut THEN <<"yellow", "HIGH">>
    ELSE IF proba > ModerateCut THEN <<"green", "MODERATE">>
    ELSE <<"green", "LOW">>

\* lines 146-155: the risk band, an emoji and a name
RiskLevel(proba) ==
    IF proba >= CriticalCut THEN <<"red", "CRITICAL">>
    ELSE IF proba >= VeryHighCut THEN <<"orange", "VERY HIGH">>
    ELSE IF proba >= HighCut THEN <<"yellow", "HIGH">>
    ELSE IF proba >= ModerateCut THEN <<"green", "MODERATE">>
    ELSE <<"green", "LOW">>

\* a recommendation that follows the cutoffs of the risk band
RecommendationByBand(proba) ==
    IF proba >= CriticalCut THEN "IMMEDIATE ACTION"
    ELSE IF proba >= HighCut THEN "HIGH PRIORITY"
    ELSE IF proba >= ModerateCut THEN "STANDARD CARE"
    ELSE "ROUTINE"

\* lines 158-168: the clinical recommendation
Recommendation(proba) ==
    IF proba >= ImmediateCut THEN "IMMEDIATE ACTION"
    ELSE IF proba >= HighCut THEN "HIGH PRIORITY"
    ELSE IF proba >= ModerateCut THEN "STANDARD CARE"
    ELSE "ROUTINE"

(***************************************************************************)
(* The explanation of a prediction.  Importances are in thousandths.  A    *)
(* contribution score is a cell: nan, or Num(n) with n in units of         *)
(* 1/(1000 * ScoreUnit), ScoreUnit being a common multiple of the divisors *)
(* max(abs(baseline_value), 1) that the baseline table gives, so that the  *)
(* division of line 364 is exact.                                          *)
(***************************************************************************)
ScoreUnit == 780
BaselineFallback == 300
ExceptBaseline == 500
SimilarMargin == 100
TopContributions == 5
TopFactors == 3

Abs(x) == IF x < 0 THEN -x ELSE x
Min(x, y) == IF x < y THEN x ELSE y
Max(x, y) == IF x > y THEN x ELSE y

\* hasattr(self.model, 'feature_importances_')
HasImportances(p) == p.model # None /\ Val(p.model).feature_importances # None

\* a fallback that repeats the default of line 298
GetBaselineProbabilityHalf(p) ==
    IF HasImportances(p) /\ Val(p.model).zero_proba # None
    THEN Val(Val(p.model).zero_proba)
    ELSE ExceptBaseline

\* lines 316-330: the classifier's answer for the all-zero row, 0.3 without
\* importances or when that call raises
GetBaselineProbability(p) ==
    IF HasImportances(p) /\ Val(p.model).zero_proba # None
    THEN Val(Val(p.model).zero_proba)
    ELSE BaselineFallback

\* lines 421-445, for names without '|'
GetBaselineFeatureValue(feature_name) ==
    CASE feature_name = "age" -> 65
      [] feature_name = "time_in_hospital" -> 4
      [] feature_name = "num_medications" -> 10
      [] feature_name = "num_lab_procedures" -> 30
      [] feature_name = "num_procedures" -> 2
      [] feature_name = "number_diagnoses" -> 5
      [] OTHER -> 0

\* the names whose rule (lines 454-459) or interpretation (lines 547-551) compares
\* the value with a number, which raises TypeError for a string
ComparedWithNumber ==
    { "age", "time_in_hospital", "num_medications", "num_lab_procedures",
      "num_procedures", "number_diagnoses" }

\* lines 449-469, for a number that is not nan or a non-empty string
FeatureIncreasesRisk(feature_name, value) ==
    LET x == value[2]
    IN  CASE feature_name = "age" -> x > 70
          [] feature_name = "time_in_hospital" -> x > 7
          [] feature_name = "num_medications" -> x > 15
          [] feature_name = "num_lab_procedures" -> x > 50
          [] feature_name = "num_procedures" -> x > 3
          [] feature_name = "number_diagnoses" -> x > 8
          [] feature_name \in {"insulin", "change", "diabetesMed"} ->
                 IsNumeric(value) /\ x = 1
          [] OTHER -> IF IsNumeric(value) THEN x > 0 ELSE TRUE

\* lines 387-395: a string under one of these names makes the loop body raise
ContributionRaises(feature_name, feature_value) ==
    ~IsNumeric(feature_value) /\ feature_name \in ComparedWithNumber

\* lines 359-372
ContributionScore(feature_name, feature_value, feature_importance) ==
    LET baseline_value == GetBaselineFeatureValue(feature_name)
    IN  IF IsNaN(feature_value) THEN NaN
        ELSE IF IsNumeric(feature_value)
        THEN IF baseline_value # 0
             THEN Num(Abs(feature_importance * (feature_value[2] - baseline_value))
                        * (ScoreUnit \div Max(Abs(baseline_value), 1)))
             ELSE Num(Abs(feature_importance * feature_value[2]) * ScoreUnit)
        ELSE Num(Abs(feature_importance) * ScoreUnit)

\* lines 374-392: direction and risk_impact
Impact(feature_name, feature_value) ==
    LET baseline_value == GetBaselineFeatureValue(feature_name)
    IN  IF IsNaN(feature_value) THEN <<"neutral", "NEUTRAL">>
        ELSE IF IsNumeric(feature_value)
        THEN IF feature_value[2] > baseline_value
             THEN <<"increases", IF FeatureIncreasesRisk(feature_name, feature_value)
                                 THEN "INCREASES" ELSE "DECREASES">>
             ELSE IF feature_value[2] < baseline_value
             THEN <<"decreases", IF FeatureIncreasesRisk(feature_name, feature_value)
                                 THEN "DECREASES" ELSE "INCREASES">>
             ELSE <<"neutral", "NEUTRAL">>
        ELSE <<"increases", IF FeatureIncreasesRisk(feature_name, feature_value)
                            THEN "INCREASES" ELSE "NEUTRAL">>

\* lines 398-410: the entry of one feature
Contribution(feature_name, feature_value, feature_importance) ==
    [ feature            |-> feature_name,
      value              |-> feature_value,
      baseline_value     |-> GetBaselineFeatureValue(feature_name),
      importance         |-> feature_importance,
      contribution_score |-> ContributionScore(feature_name, feature_value,
                                               feature_importance),
      direction          |-> Impact(feature_name, feature_value)[1],
      risk_impact        |-> Impact(feature_name, feature_value)[2] ]

\* a < b on floats: false when either is nan
Less(a, b) == ~IsNaN(a) /\ ~IsNaN(b) /\ a[2] < b[2]

Reverse(list) == [ i \in 1..Len(list) |-> list[Len(list) + 1 - i] ]

\* list.sort for fewer than 64 entries (CPython listobject.c, count_run): the
\* length of the run the list starts with, strictly descending or non-descending
CountRun(list, descending) ==
    LET falls(j) == Less(list[j + 1].contribution_score, list[j].contribution_score)
    IN  CHOOSE run \in 2..Len(list) :
            /\ \A j \in 2..(run - 1) : falls(j) = descending
            /\ run < Len(list) => falls(run) # descending

\* binarysort: where the pivot goes among the first `start` entries, counted from 0
BinarySearch(list, pivot, start) ==
    LET search[lr \in (0..start) \X (0..start)] ==
            IF lr[1] < lr[2]
            THEN LET q == lr[1] + ((lr[2] - lr[1]) \div 2)
                 IN  IF Less(pivot.contribution_score, list[q + 1].contribution_score)
                     THEN search[<<lr[1], q>>]
                     ELSE search[<<q + 1, lr[2]>>]
            ELSE lr[1]
    IN  search[<<0, start>>]

\* binarysort: the entry at position start + 1 moves to position l + 1
MovedTo(list, start, l) ==
    SubSeq(list, 1, l) \o <<list[start + 1]>> \o SubSeq(list, l + 1, start)
        \o SubSeq(list, start + 2, Len(list))

\* binarysort: the entry at position start + 1 is put in its place among the
\* entries before it
Inserted(list, start) ==
    MovedTo(list, start, BinarySearch(list, list[start + 1], start))

\* binarysort: the entries after the run are inserted one by one
BinarySort(list, run) ==
    LET sorted[start \in run..Len(list)] ==
            IF start = run THEN list ELSE Inserted(sorted[start - 1], start - 1)
    IN  sorted[Len(list)]

\* a descending run is reversed before the rest is inserted
SortFromRun(list, descending, run) ==
    BinarySort(IF descending
               THEN Reverse(SubSeq(list, 1, run)) \o SubSeq(list, run + 1, Len(list))
               ELSE list,
               run)

SortFrom(list, descending) == SortFromRun(list, descending, CountRun(list, descending))

\* the ascending sort by contribution_score that list.sort does with <
SortAscending(list) ==
    IF Len(list) < 2 THEN list
    ELSE SortFrom(list, Less(list[2].contribution_score, list[1].contribution_score))

\* line 413: contributions.sort(key=contribution_score, reverse=True): the list is
\* reversed, sorted in ascending order and reversed again, which is a stable
\* descending sort when no score is nan
SortByScore(contributions) == Reverse(SortAscending(Reverse(contributions)))

\* an importance that repeats the last weight beyond the end of the vector
ImportanceAtOrLast(importances, i) == importances[Min(i, Len(importances))]

\* line 354: importances[i] if i < len(importances) else 0, i counted from 1 here
ImportanceAt(importances, i) == IF i <= Len(importances) THEN importances[i] ELSE 0

\* lines 351-352: the positions of feature_names whose name is a key of the record
EntryPositions(patient_values, feature_names) ==
    LET has(i) == Has(patient_values, feature_names[i])
    IN  SelectSeq([ i \in 1..Len(feature_names) |-> i ], has)

\* HealthcareModelPredictor._calculate_feature_contributions
CalculateFeatureContributions(p, patient_values, feature_names) ==
    IF ~HasImportances(p) THEN [ ok |-> TRUE, contributions |-> <<>> ]
    ELSE LET importances == Val(Val(p.model).feature_importances)
             at == EntryPositions(patient_values, feature_names)
         IN  IF \E k \in 1..Len(at) :
                    ContributionRaises(feature_names[at[k]],
                                       Get(patient_values, feature_names[at[k]]))
             THEN Raise("TypeError")
             ELSE [ ok |-> TRUE,
                    contributions |->
                      SortByScore([ k \in 1..Len(at) |->
                        Contribution(feature_names[at[k]],
                                     Get(patient_values, feature_names[at[k]]),
                                     ImportanceAt(importances, at[k])) ]) ]

\* a slice that takes four entries
FirstFour(contributions) == SubSeq(contributions, 1, Min(4, Len(contributions)))

\* lines 587-588: contributions[:5]
FirstFive(contributions) ==
    SubSeq(contributions, 1, Min(TopContributions, Len(contributions)))

\* lines 587-600: the factors of one kind that the text names
Factors(contributions, risk_impact) ==
    LET of_kind(c) == c.risk_impact = risk_impact
        found == SelectSeq(FirstFive(contributions), of_kind)
    IN  [ k \in 1..Min(TopFactors, Len(found)) |-> found[k].feature ]

\* HealthcareModelPredictor._generate_explanation_text: what the text says
GenerateExplanationText(contributions, current_prob, baseline_prob) ==
    [ risk_level |-> IF current_prob > baseline_prob + SimilarMargin
                     THEN "HIGHER than average"
                     ELSE IF current_prob < baseline_prob - SimilarMargin
                     THEN "LOWER than average"
                     ELSE "SIMILAR to average",
      increasing |-> Factors(contributions, "INCREASES"),
      decreasing |-> Factors(contributions, "DECREASES") ]

\* lines 293-314: the explanation around the contributions c, or the exception that
\* their calculation raised
Explanation(c, current_prob, baseline_prob) ==
    IF ~c.ok THEN c
    ELSE [ ok |-> TRUE,
           explanation |->
             [ baseline_risk |-> baseline_prob,
               patient_risk |-> current_prob,
               risk_difference |-> current_prob - baseline_prob,
               feature_contributions |-> c.contributions,
               explanation_text |->
                   GenerateExplanationText(c.contributions, current_prob,
                                           baseline_prob) ] ]

\* HealthcareModelPredictor._explain_prediction_detailed.  When predict_proba raises
\* at line 291 the bare except sets the baseline 0.5 and calls it again at line 299,
\* outside any try.
ExplainPredictionDetailed(p, patient_data, feature_names) ==
    IF patient_data.predict # "ok" THEN Raise(patient_data.predict)
    ELSE Explanation(CalculateFeatureContributions(p, patient_data, feature_names),
                     patient_data.proba, GetBaselineProbability(p))

\* sorted(feature_importance.items(), key=importance, reverse=True)
SortByImportance(pairs) ==
    LET n == Len(pairs)
        before(j, i) == pairs[j][2] > pairs[i][2] \/ (pairs[j][2] = pairs[i][2] /\ j < i)
        place(i) == Cardinality({ j \in 1..n : before(j, i) }) + 1
    IN  [ k \in 1..n |-> pairs[CHOOSE i \in 1..n : place(i) = k] ]

\* lines 264-270: dict(zip(feature_names, importances)) in descending order, for
\* names that are all different; None without importances
GlobalFeatureImportance(p, feature_names) ==
    IF ~HasImportances(p) THEN None
    ELSE LET importances == Val(Val(p.model).feature_importances)
         IN  Some(SortByImportance(
                 [ i \in 1..Min(Len(feature_names), Len(importances)) |->
                     <<feature_names[i], importances[i]>> ]))

\* lines 254-261: the bundled names when there are any, else the keys of the record
FeatureNames(p, patient_data) ==
    IF p.feature_names # None /\ Val(p.feature_names) # <<>>
    THEN Val(p.feature_names)
    ELSE Keys(patient_data)

\* lines 264-275: the analysis with the explanation e, or the exception it raised
Analysis(p, feature_names, e) ==
    IF ~e.ok THEN e
    ELSE [ ok |-> TRUE,
           analysis |->
             [ global_feature_importance |-> GlobalFeatureImportance(p, feature_names) ]
             @@ e.explanation ]

\* HealthcareModelPredictor.analyze_feature_importance
AnalyzeFeatureImportance(p, patient_data) ==
    Analysis(p, FeatureNames(p, patient_data),
             ExplainPredictionDetailed(p, patient_data, FeatureNames(p, patient_data)))

\* lines 170-178
Result(p, patient_data, y_pred_proba) ==
    [ patient_id |-> IF Has(patient_data, "patient_id")
                     THEN Get(patient_data, "patient_id")
                     ELSE <<"Unknown">>,
      readmission_probability |-> Some(y_pred_proba),
      prediction_optimal_threshold |-> Label(y_pred_proba, Val(p.optimal_threshold)),
      prediction_default_threshold |-> Label(y_pred_proba, DefaultThreshold),
      risk_level |-> RiskLevel(y_pred_proba),
      clinical_recommendation |-> Recommendation(y_pred_proba),
      optimal_threshold_used |-> p.optimal_threshold,
      status |-> None ]

\* lines 181-183: result.update(feature_analysis), a being the analysis or the
\* exception it raised
Updated(result, a) ==
    IF ~a.ok THEN a ELSE [ ok |-> TRUE, result |-> result @@ a.analysis ]

\* HealthcareModelPredictor.predict_single_patient, called with a mapping
PredictSinglePatient(p, patient_data, explain) ==
    IF ~p.is_loaded THEN Raise("ValueError")
    ELSE IF ~PrepareData(p, patient_data).ok THEN PrepareData(p, patient_data)
    ELSE IF p.model = None THEN Raise("AttributeError")
    ELSE IF patient_data.predict # "ok" THEN Raise(patient_data.predict)
    ELSE IF ~IsNumber(p.optimal_threshold) THEN Raise("TypeError")
    ELSE IF ~explain
    THEN [ ok |-> TRUE, result |-> Result(p, patient_data, patient_data.proba) ]
    ELSE Updated(Result(p, patient_data, patient_data.proba),
                 AnalyzeFeatureImportance(p, patient_data))

(***************************************************************************)
(* HealthcareModelPredictor.predict_batch over a table.  A table has its   *)
(* rows, which share their columns, and the index label of each row: a     *)
(* number (Num) or a string (Str).                                         *)
(***************************************************************************)
DataFrame(index, rows) == [ index |-> index, rows |-> rows ]

\* 'patient_id' in patients_df.columns
HasColumn(patients_df, column) ==
    Len(patients_df.rows) > 0 /\ Has(patients_df.rows[1], column)

\* lines 204-210
PatientIds(patients_df) ==
    LET n == Len(patients_df.rows)
    IN  IF HasColumn(patients_df, "patient_id")
        THEN [ k \in 1..n |-> Get(patients_df.rows[k], "patient_id") ]
        ELSE IF HasColumn(patients_df, "encounter_id")
        THEN [ k \in 1..n |-> Get(patients_df.rows[k], "encounter_id") ]
        ELSE [ k \in 1..n |-> <<"Patient", k - 1>> ]

\* lines 215 and 228: patient_ids[idx] if idx < len(patient_ids) else f"Patient_{idx}",
\* idx being the index label that iterrows() gives; a negative idx counts from the end
IdAtLabel(patient_ids, idx) ==
    IF ~IsNumeric(idx) THEN Raise("TypeError")
    ELSE IF idx[2] >= Len(patient_ids)
    THEN [ ok |-> TRUE, patient_id |-> <<"Patient", idx[2]>> ]
    ELSE IF idx[2] >= 0
    THEN [ ok |-> TRUE, patient_id |-> patient_ids[idx[2] + 1] ]
    ELSE IF idx[2] >= -Len(patient_ids)
    THEN [ ok |-> TRUE, patient_id |-> patient_ids[Len(patient_ids) + idx[2] + 1] ]
    ELSE Raise("IndexError")

\* lines 227-235: the record that stands for a failed row
NanResult(p, patient_id) ==
    [ patient_id |-> patient_id,
      readmission_probability |-> NaN,
      prediction_optimal_threshold |-> -1,
      prediction_default_threshold |-> -1,
      risk_level |-> <<"", "ERROR">>,
      clinical_recommendation |-> "Error in prediction",
      optimal_threshold_used |-> p.optimal_threshold,
      status |-> None ]

\* lines 221-236: the record appended for what predict_single_patient returned or
\* raised
RowResult(p, patient_id, r) ==
    [ ok |-> TRUE, result |-> IF r.ok THEN r.result ELSE NanResult(p, patient_id) ]

\* lines 212-236, one pass of the loop body over the row at `position`.  When line 215
\* raises, the handler evaluates the same expression at line 225 and raises again,
\* which leaves the loop and the method.
BatchRow(p, patients_df, position, explain) ==
    LET id == IdAtLabel(PatientIds(patients_df), patients_df.index[position])
    IN  IF ~id.ok THEN id
        ELSE RowResult(p, id.patient_id,
                       PredictSinglePatient(p, Put(patients_df.rows[position],
                                                   "patient_id", id.patient_id),
                                            explain))

\* HealthcareModelPredictor.predict_batch: the records of the table it returns, or
\* the exception that leaves it
PredictBatch(p, patients_df, explain) ==
    IF ~p.is_loaded THEN Raise("ValueError")
    ELSE LET n == Len(patients_df.rows)
             passes == [ k \in 1..n |-> BatchRow(p, patients_df, k, explain) ]
         IN  IF \E k \in 1..n : ~passes[k].ok
             THEN Raise(passes[CHOOSE k \in 1..n :
                                   /\ ~passes[k].ok
                                   /\ \A j \in 1..(k - 1) : passes[j].ok].exc)
             ELSE [ ok |-> TRUE, results |-> [ k \in 1..n |-> passes[k].result ] ]

(***************************************************************************)
(* Steps that are no request: the object is built and loaded.              *)
(***************************************************************************)
NoRequest == [ endpoint |-> "none" ]

\* one request is handled at a time, start to end
Idle == request = NoRequest

ConstructorThresholds == { None, Some(0), Some(TrainedThreshold), Some(650) }

\* HealthcareModelPredictor(model_path, optimal_threshold): the object is built once
Construct ==
    \E t \in ConstructorThresholds :
        /\ Idle
        /\ ~predictor.exists
        /\ predictor' = NewPredictor(t)
        /\ request' = [ endpoint |-> "__init__" ]
        /\ response' = [ endpoint |-> "__init__" ]

\* predictor.load_model()
LoadModelCall ==
    /\ Idle
    /\ predictor.exists
    /\ \E art \in Artifacts :
         LET r == LoadModel(predictor, art)
         IN  /\ predictor' = r.pred
             /\ request' = [ endpoint |-> "load_model", artifact |-> art ]
             /\ response' = [ endpoint |-> "load_model", ret |-> r.ret ]

\* load_models(), run once at startup: the global is built with the trained
\* threshold and loaded
LoadModels ==
    \E art \in Artifacts :
        LET r == LoadModel(NewPredictor(Some(TrainedThreshold)), art)
        IN  /\ Idle
            /\ ~predictor.exists
            /\ predictor' = r.pred
            /\ request' = [ endpoint |-> "load_models", artifact |-> art ]
            /\ response' = [ endpoint |-> "load_models", ret |-> r.ret ]

(***************************************************************************)
(* GET /health                                                             *)
(***************************************************************************)
ModelLoaded(p) == p.exists /\ p.is_loaded

\* a health check without the unhealthy branch
HealthResponseAlwaysHealthy(p) ==
    [ endpoint |-> "/health", code |-> 200,
      status |-> "healthy",
      model_loaded |-> ModelLoaded(p),
      model_status |-> IF Ready(p) THEN "loaded" ELSE "not_loaded",
      has_model_type |-> p.exists /\ p.model # None,
      optimal_threshold |-> IF p.exists THEN p.optimal_threshold ELSE None,
      invocations |-> 0 ]

\* lines 632-658
HealthResponse(p) ==
    [ endpoint |-> "/health", code |-> 200,
      status |-> IF Ready(p) THEN "healthy" ELSE "unhealthy",
      model_loaded |-> ModelLoaded(p),
      model_status |-> IF Ready(p) THEN "loaded" ELSE "not_loaded",
      has_model_type |-> p.exists /\ p.model # None,
      optimal_threshold |-> IF p.exists THEN p.optimal_threshold ELSE None,
      invocations |-> 0 ]

health_check ==
    /\ Idle
    /\ request' = [ endpoint |-> "/health" ]
    /\ response' = HealthResponse(predictor)
    /\ UNCHANGED predictor

(***************************************************************************)
(* POST /predict                                                           *)
(***************************************************************************)
Error(endpoint, code, message, invocations) ==
    [ endpoint |-> endpoint, code |-> code, status |-> "error",
      message |-> message, invocations |-> invocations ]

\* a test for the object alone, not for its is_loaded
PredictNotLoadedObjectOnly(p) ==
    IF ~p.exists THEN Some(Error("/predict", 500, "Model not loaded", 0)) ELSE None

\* lines 681-686
PredictNotLoaded(p) ==
    IF ~Ready(p) THEN Some(Error("/predict", 500, "Model not loaded", 0)) ELSE None

\* the columns of the row that prepare_data returned to predict_single_patient,
\* None when it raised
Handed(p, patient_data) ==
    IF PrepareData(p, patient_data).ok
    THEN Some(PrepareData(p, patient_data).columns)
    ELSE None

\* whether line 141 called the classifier
ModelCalled(p, patient_data) == PrepareData(p, patient_data).ok /\ p.model # None

\* lines 689-690, 765-766, 888-889: if 'patient_id' not in data: data['patient_id'] = ...
WithId(patient_data, patient_id) ==
    IF ~Has(patient_data, "patient_id")
    THEN Put(patient_data, "patient_id", patient_id)
    ELSE patient_data

\* lines 695-718: the answer to what predict_single_patient returned or raised;
\* X_prepared and model_called record what the call of line 693 did
PredictAnswer(p, rec, r) ==
    (IF r.ok
     THEN [ endpoint |-> "/predict", code |-> 200, status |-> "success",
            result |-> r.result, invocations |-> 1 ]
     ELSE IF r.exc = "ValueError"
     THEN Error("/predict", 400, "Invalid data format", 1)
     ELSE Error("/predict", 500, "Prediction failed", 1))
    @@ [ X_prepared |-> Handed(p, rec), model_called |-> ModelCalled(p, rec) ]

\* lines 688-718, data a non-empty JSON value
PredictLoaded(p, data) ==
    IF data.kind # "dict"
    THEN Error("/predict", 500, "Prediction failed", 0)
    ELSE PredictAnswer(p, WithId(data, <<"API_Patient">>),
                       PredictSinglePatient(p, WithId(data, <<"API_Patient">>), TRUE))

PredictResponse(p, data) ==
    IF data.kind = "empty"
    THEN Error("/predict", 400, "No data provided", 0)
    ELSE IF PredictNotLoaded(p) # None
    THEN Val(PredictNotLoaded(p))
    ELSE PredictLoaded(p, data)

(***************************************************************************)
(* POST /predict_batch and POST /upload_predict: the per-entry loop        *)
(***************************************************************************)
\* r.get('risk_level', '').startswith(emoji)
StartsWith(risk_level, emoji) == risk_level[1] = emoji

\* lines 774-786 and 896-908: the record that stands for a failed entry
ErrorResult(p, rec, exc) ==
    [ patient_id |-> Get(rec, "patient_id"),
      readmission_probability |-> None,
      prediction_optimal_threshold |-> -1,
      prediction_default_threshold |-> -1,
      risk_level |-> <<"", "ERROR">>,
      clinical_recommendation |-> "Error in prediction",
      optimal_threshold_used |-> p.optimal_threshold,
      status |-> Some("error"),
      error_type |-> exc ]

\* lines 768-788 and 891-910: the record appended for what predict_single_patient
\* returned or raised, with the index of the entry
Pass(p, rec, index, r) ==
    IF r.ok
    THEN [ raised |-> FALSE, result |-> r.result @@ index ]
    ELSE [ raised |-> TRUE, result |-> ErrorResult(p, rec, r.exc) @@ index ]

\* lines 761-788, one pass of the loop body over a mapping; i counts from 0.
\* raised tells whether the except branch ran, which also appends to errors
BatchEntry(p, patient_data, i) ==
    Pass(p, WithId(patient_data, <<"Batch_Patient", i>>), [ batch_index |-> i ],
         PredictSinglePatient(p, WithId(patient_data, <<"Batch_Patient", i>>), TRUE))

\* lines 884-910, one pass of the loop body; the predictor is an object
FileEntry(p, patient_data, i) ==
    Pass(p, WithId(patient_data, <<"File_Patient", i>>), [ file_index |-> i ],
         PredictSinglePatient(p, WithId(patient_data, <<"File_Patient", i>>), TRUE))

IsError(r) == r.status = Some("error")
NotError(r) == r.status # Some("error")
IsHighRisk(r) == StartsWith(r.risk_level, "red") \/ StartsWith(r.risk_level, "orange")
IsModerateRisk(r) == StartsWith(r.risk_level, "yellow")
\* a low_risk count that takes the band by its name
IsLowRiskByName(r) == r.risk_level[2] = "LOW"

IsLowRisk(r) == StartsWith(r.risk_level, "green")

\* len([r for r in results if r.get('status') != 'error'])
SuccessfulCount(results) ==
    Cardinality({ k \in 1..Len(results) : NotError(results[k]) })

HighRiskCount(results) ==
    Cardinality({ k \in 1..Len(results) : IsHighRisk(results[k]) })

ModerateRiskCount(results) ==
    Cardinality({ k \in 1..Len(results) : IsModerateRisk(results[k]) })

LowRiskCount(results) ==
    Cardinality({ k \in 1..Len(results) : IsLowRisk(results[k]) })

\* lines 799-804 and 924-929
Summary(results, errors) ==
    [ high_risk     |-> HighRiskCount(results),
      moderate_risk |-> ModerateRiskCount(results),
      low_risk      |-> LowRiskCount(results),
      errors        |-> Len(errors) ]

\* the passes of the loop that ended in the except branch
Raised(pass) == pass.raised

\* lines 790-805 and 912-930; passes holds what each pass of the loop produced
Success(endpoint, patients, passes) ==
    LET results == [ k \in 1..Len(passes) |-> passes[k].result ]
        errors  == SelectSeq(passes, Raised)
    IN  [ endpoint |-> endpoint, code |-> 200, status |-> "success",
          total_patients |-> Len(patients),
          successful_predictions |-> SuccessfulCount(results),
          failed_predictions |-> Len(errors),
          results |-> results,
          summary |-> Summary(results, errors),
          invocations |-> Len(passes) ]

\* the entries before the first one that is no mapping
MappingsBefore(patients) ==
    IF \E k \in 1..Len(patients) : patients[k].kind # "dict"
    THEN (CHOOSE k \in 1..Len(patients) :
             /\ patients[k].kind # "dict"
             /\ \A j \in 1..(k - 1) : patients[j].kind = "dict") - 1
    ELSE Len(patients)

\* a size test that lets one entry too many through
TooLargeOffByOne(n, limit) == n > limit + 1

\* the size test of line 750
TooLarge(n, limit) == n > limit

\* lines 758-821: an entry that is no mapping raises TypeError in the loop body and
\* AttributeError in its handler, which ends the request in the outer handler
BatchLoop(p, patients) ==
    IF MappingsBefore(patients) < Len(patients)
    THEN Error("/predict_batch", 500, "Batch prediction failed", MappingsBefore(patients))
    ELSE Success("/predict_batch", patients,
                 [ k \in 1..Len(patients) |-> BatchEntry(p, patients[k], k - 1) ])

\* predict_batch, lines 724-821
BatchResponse(p, data) ==
    IF data.kind \in {"empty", "no_patients"}
    THEN Error("/predict_batch", 400, "No patients data provided", 0)
    ELSE IF ~Ready(p)
    THEN Error("/predict_batch", 500, "Model not loaded", 0)
    ELSE IF data.kind = "list_with_patients"
    THEN Error("/predict_batch", 500, "Batch prediction failed", 0)
    ELSE IF ~data.is_list \/ Len(data.patients) = 0
    THEN Error("/predict_batch", 400, "Patients must be a non-empty array", 0)
    ELSE IF TooLarge(Len(data.patients), MaxBatchSize)
    THEN Error("/predict_batch", 400, "Batch size too large", 0)
    ELSE BatchLoop(p, data.patients)

(***************************************************************************)
(* POST /upload_predict                                                    *)
(***************************************************************************)
Lower(c) ==
    CASE c = "C" -> "c" [] c = "S" -> "s" [] c = "V" -> "v"
      [] c = "X" -> "x" [] c = "L" -> "l" [] c = "T" -> "t"
      [] OTHER -> c

\* str.lower
LowerStr(str) == [ k \in 1..Len(str) |-> Lower(str[k]) ]

\* str.rfind of a single character, counting from 1; 0 when absent
RFind(str, c) ==
    IF \E k \in 1..Len(str) : str[k] = c
    THEN CHOOSE k \in 1..Len(str) :
            str[k] = c /\ \A j \in (k + 1)..Len(str) : str[j] # c
    ELSE 0

\* os.path.splitext(filename)[1]: from the last dot of the last path component,
\* unless only dots precede it there
SplitExt(filename) ==
    LET sep == RFind(filename, "/")
        dot == RFind(filename, ".")
    IN  IF dot > sep /\ \E k \in (sep + 1)..(dot - 1) : filename[k] # "."
        THEN SubSeq(filename, dot, Len(filename))
        ELSE <<>>

\* line 844
allowed_extensions ==
    { <<".", "c", "s", "v">>, <<".", "x", "l", "s">>, <<".", "x", "l", "s", "x">> }

\* line 845
FileExtension(filename) == LowerStr(SplitExt(filename))

\* a size test that already rejects a file at the limit
FileTooLargeAtLimit(n, limit) == n >= limit

\* the size test of line 869
FileTooLarge(n, limit) == n > limit

\* lines 878-932; df.to_dict('records') gives mappings only
FileLoop(p, patients) ==
    IF ~p.exists
    THEN Error("/upload_predict", 400, "Error reading file", 0)
    ELSE Success("/upload_predict", patients,
                 [ k \in 1..Len(patients) |-> FileEntry(p, patients[k], k - 1) ])

\* upload_predict, lines 827-947
UploadResponse(p, upload) ==
    IF ~upload.has_file
    THEN Error("/upload_predict", 400, "No file uploaded", 0)
    ELSE IF upload.filename = <<>>
    THEN Error("/upload_predict", 400, "No file selected", 0)
    ELSE IF FileExtension(upload.filename) \notin allowed_extensions
    THEN Error("/upload_predict", 400, "Invalid file type", 0)
    ELSE IF ~upload.readable
    THEN Error("/upload_predict", 400, "Error reading file", 0)
    ELSE IF Len(upload.rows) = 0
    THEN Error("/upload_predict", 400, "File is empty or contains no data", 0)
    ELSE IF FileTooLarge(Len(upload.rows), MaxFileRows)
    THEN Error("/upload_predict", 400, "File too large", 0)
    ELSE FileLoop(p, upload.rows)

(***************************************************************************)
(* GET /example, GET /model_info, GET /stats, GET /                        *)
(***************************************************************************)
ExampleResponse ==
    [ endpoint |-> "/example", code |-> 200, status |-> "success", invocations |-> 0 ]

RootResponse ==
    [ endpoint |-> "/", code |-> 200, status |-> "success", invocations |-> 0 ]

ModelInfoResponse(p) ==
    IF ~Ready(p)
    THEN Error("/model_info", 500, "Model not loaded", 0)
    ELSE [ endpoint |-> "/model_info", code |-> 200, status |-> "success",
           optimal_threshold |-> p.optimal_threshold,
           is_loaded |-> p.is_loaded,
           expected_features |->
               IF DeclaresCount(p) THEN Val(p.model).n_features_in ELSE None,
           invocations |-> 0 ]

StatsResponse(p) ==
    IF ~Ready(p)
    THEN Error("/stats", 500, "Model not loaded", 0)
    ELSE [ endpoint |-> "/stats", code |-> 200, status |-> "success",
           optimal_threshold |-> p.optimal_threshold,
           max_batch_size |-> MaxBatchSize,
           max_file_size |-> MaxFileRows,
           invocations |-> 0 ]

(***************************************************************************)
(* The requests the handlers are exercised with.                           *)
(***************************************************************************)
\* one probability on each side of every cutoff the code compares with
AllProbas ==
    { 0, 199, 200, 285, 286, 287, 399, 400, 401, 499, 500, 501,
      599, 600, 699, 700, 799, 800, 1000 }

\* one probability in each risk band
BandProbas == { 100, 300, 500, 700, 900 }

\* what the scaler and the classifier do with a row: <<transform, predict, proba>>
Outcomes(probas) ==
    { <<"ok", "ok", q>> : q \in probas }
    \cup { <<"ok", "ValueError", 0>>, <<"ok", "TypeError", 0>>, <<"ValueError", "ok", 900>> }

\* the feature columns of the plain records
FeatureColumns ==
    << <<"age", Num(75)>>, <<"time_in_hospital", Num(4)>>, <<"insulin", Num(1)>> >>

\* a record with patient_id first, when it has one, and `width` feature columns
Items(patient_id, width) ==
    (IF patient_id # None THEN << <<"patient_id", Val(patient_id)>> >> ELSE <<>>)
        \o SubSeq(FeatureColumns, 1, width)

FromOutcome(patient_id, width, o) == Record(Items(patient_id, width), o[1], o[2], o[3])

\* records with identifier and label columns between the features, with more than
\* five features, with an empty cell, and with strings
SpecialItems ==
    { << <<"age", Num(75)>>, <<"encounter_id", Num(7)>>, <<"time_in_hospital", Num(9)>>,
         <<"readmitted", Num(0)>>, <<"num_medications", Num(12)>>,
         <<"patient_nbr", Num(3)>> >>,
      << <<"age", Num(68)>>, <<"num_medications", Num(30)>>,
         <<"num_lab_procedures", Num(90)>>, <<"number_diagnoses", Num(15)>>,
         <<"time_in_hospital", Num(12)>>, <<"num_procedures", Num(3)>> >>,
      << <<"age", Num(75)>>, <<"readmitted", NaN>> >>,
      << <<"gender", Str("F")>>, <<"age", Num(40)>> >>,
      << <<"age", Str("old")>>, <<"insulin", Num(2)>> >> }

PredictBodies ==
    { [kind |-> "empty"], NonMapping("str"), NonMapping("int") }
    \cup { FromOutcome(id, w, o) :
             id \in { None, Some(<<"caller", 0>>) }, w \in 1..3, o \in Outcomes(AllProbas) }
    \cup { Record(items, "ok", "ok", 650) : items \in SpecialItems }

\* entries of every kind the loop tells apart: no mapping, one that the classifier
\* rejects, one too narrow for a classifier that expects 2 columns, one without
\* patient_id, and probabilities in different bands
BatchEntries ==
    { NonMapping("str"),
      FromOutcome(None, 2, <<"ok", "ok", 300>>),
      FromOutcome(Some(<<"caller", 0>>), 2, <<"ok", "ok", 500>>),
      FromOutcome(Some(<<"caller", 0>>), 2, <<"ok", "ok", 900>>),
      FromOutcome(Some(<<"caller", 0>>), 2, <<"ok", "ValueError", 0>>),
      FromOutcome(Some(<<"caller", 0>>), 1, <<"ok", "ok", 100>>) }

\* every sequence over S of length 1..n
SeqsUpTo(S, n) == UNION { [1..k -> S] : k \in 1..n }

Replicate(x, n) == [ k \in 1..n |-> x ]

BatchBodies ==
    { [kind |-> "empty"], [kind |-> "no_patients"], [kind |-> "list_with_patients"],
      [kind |-> "dict", is_list |-> FALSE, patients |-> <<>>],
      [kind |-> "dict", is_list |-> TRUE, patients |-> <<>>] }
    \cup { [kind |-> "dict", is_list |-> TRUE, patients |-> ps] :
             ps \in SeqsUpTo(BatchEntries, MaxBatch) }
    \cup { [kind |-> "dict", is_list |-> TRUE, patients |-> Replicate(e, n)] :
             e \in { FromOutcome(None, 2, <<"ok", "ok", 700>>), NonMapping("str") },
             n \in { MaxBatchSize, MaxBatchSize + 1 } }

Filenames ==
    { <<>>,
      <<"d", ".", "c", "s", "v">>,
      <<"D", ".", "C", "S", "V">>,
      <<"d", ".", "x", "l", "s">>,
      <<"d", ".", "X", "l", "s", "X">>,
      <<"d", ".", "t", "x", "t">>,
      <<"d", ".", "c", "s", "v", ".", "t", "x", "t">>,
      <<"c", "s", "v">>,
      <<".", "c", "s", "v">>,
      <<"a", ".", "b", "/", "c", "s", "v">> }

\* the rows of a table share their columns: all have patient_id or none has
TableRows(with_id, width, os) ==
    [ k \in 1..Len(os) |->
        FromOutcome(IF with_id THEN Some(<<"row", k - 1>>) ELSE None, width, os[k]) ]

RowOutcomes ==
    { <<"ok", "ok", 100>>, <<"ok", "ok", 500>>, <<"ok", "ok", 900>>,
      <<"ok", "ValueError", 0>>, <<"ValueError", "ok", 900>> }

Tables ==
    { <<>> }
    \cup { TableRows(with_id, 2, os) :
             with_id \in BOOLEAN, os \in SeqsUpTo(RowOutcomes, MaxRows) }
    \cup { TableRows(TRUE, 1, << <<"ok", "ok", 900>> >>) }
    \cup { TableRows(FALSE, 2, Replicate(<<"ok", "ok", 300>>, n)) :
             n \in { MaxFileRows, MaxFileRows + 1 } }

\* every file name with one small table, every table under one good name
Uploads ==
    { [has_file |-> FALSE, filename |-> <<>>, readable |-> FALSE, rows |-> <<>>] }
    \cup { [has_file |-> TRUE, filename |-> f, readable |-> r,
            rows |-> IF r THEN TableRows(FALSE, 2, << <<"ok", "ok", 500>> >>) ELSE <<>>] :
             f \in Filenames, r \in BOOLEAN }
    \cup { [has_file |-> TRUE, filename |-> <<"d", ".", "X", "l", "s", "X">>,
            readable |-> TRUE, rows |-> t] : t \in Tables }

\* the index labels a table of n rows can have: the default 0..n-1, the same in
\* reverse (a table that was sorted), labels that start at 5 (rows selected from a
\* longer table), and strings
Indexes(n) ==
    { [ k \in 1..n |-> Num(k - 1) ],
      [ k \in 1..n |-> Num(n - k) ],
      [ k \in 1..n |-> Num(k + 4) ],
      [ k \in 1..n |-> Str("r") ] }

\* the columns of a table given to predict_batch: with patient_id, with
\* encounter_id only, with neither
FrameRows(id_column, os) ==
    [ k \in 1..Len(os) |->
        Record((IF id_column = "none" THEN <<>>
                ELSE << <<id_column, <<"row", k - 1>> >> >>)
                   \o SubSeq(FeatureColumns, 1, 2),
               os[k][1], os[k][2], os[k][3]) ]

FrameOutcomes == { <<"ok", "ok", 300>>, <<"ok", "ValueError", 0>> }

DataFrames ==
    { DataFrame(<<>>, <<>>) }
    \cup UNION { { DataFrame(index, FrameRows(id_column, os)) :
                      id_column \in { "patient_id", "encounter_id", "none" },
                      index \in Indexes(Len(os)) } :
                    os \in SeqsUpTo(FrameOutcomes, MaxRows) }

(***************************************************************************)
(* The request handlers as steps.                                          *)
(***************************************************************************)
predict ==
    \E data \in PredictBodies :
        /\ Idle
        /\ request' = [ endpoint |-> "/predict", data |-> data ]
        /\ response' = PredictResponse(predictor, data)
        /\ UNCHANGED predictor

predict_batch ==
    \E data \in BatchBodies :
        /\ Idle
        /\ request' = [ endpoint |-> "/predict_batch", data |-> data ]
        /\ response' = BatchResponse(predictor, data)
        /\ UNCHANGED predictor

upload_predict ==
    \E upload \in Uploads :
        /\ Idle
        /\ request' = [ endpoint |-> "/upload_predict", upload |-> upload ]
        /\ response' = UploadResponse(predictor, upload)
        /\ UNCHANGED predictor

\* predictor.predict_batch(patients_df, explain), called on the object
predict_batch_method ==
    \E patients_df \in DataFrames, explain \in BOOLEAN :
        /\ Idle
        /\ predictor.exists
        /\ request' = [ endpoint |-> "predict_batch()", patients_df |-> patients_df,
                        explain |-> explain ]
        /\ response' = [ endpoint |-> "predict_batch()" ]
                         @@ PredictBatch(predictor, patients_df, explain)
        /\ UNCHANGED predictor

get_example ==
    /\ Idle
    /\ request' = [ endpoint |-> "/example" ]
    /\ response' = ExampleResponse
    /\ UNCHANGED predictor

get_model_info ==
    /\ Idle
    /\ request' = [ endpoint |-> "/model_info" ]
    /\ response' = ModelInfoResponse(predictor)
    /\ UNCHANGED predictor

get_stats ==
    /\ Idle
    /\ request' = [ endpoint |-> "/stats" ]
    /\ response' = StatsResponse(predictor)
    /\ UNCHANGED predictor

root ==
    /\ Idle
    /\ request' = [ endpoint |-> "/" ]
    /\ response' = RootResponse
    /\ UNCHANGED predictor

\* the response has gone out; the next request can come
Respond ==
    /\ ~Idle
    /\ request' = NoRequest
    /\ response' = NoRequest
    /\ UNCHANGED predictor

\* the module as imported: predictor = None, nothing asked yet
Init ==
    /\ predictor = NoPredictor
    /\ request = NoRequest
    /\ response = NoRequest

Next ==
    \/ Construct
    \/ LoadModelCall
    \/ LoadModels
    \/ health_check
    \/ predict
    \/ predict_batch
    \/ upload_predict
    \/ predict_batch_method
    \/ get_example
    \/ get_model_info
    \/ get_stats
    \/ root
    \/ Respond

Spec == Init /\ [][Next]_vars

(***************************************************************************)
(* Concurrent serving.  app.run serves each request on a thread of its own *)
(* once load_models() has returned True (lines 1107-1112); the threads     *)
(* share the module-level predictor.  Under Serving, request and response  *)
(* hold one frame per thread, and a /predict request is a run of steps,    *)
(* one for each place where the handler reads the predictor.               *)
(***************************************************************************)
Threads == {1, 2}

\* what load_models() leaves in the module-level predictor when it returns True
ServedPredictors ==
    { LoadModel(NewPredictor(Some(TrainedThreshold)), art).pred :
        art \in { a \in Artifacts :
                    LoadModel(NewPredictor(Some(TrainedThreshold)), a).ret } }

\* the JSON bodies the threads are sent
ServedBodies ==
    { [kind |-> "empty"], NonMapping("str"),
      FromOutcome(None, 2, <<"ok", "ok", 300>>),
      FromOutcome(Some(<<"caller", 0>>), 1, <<"ok", "ok", 900>>),
      FromOutcome(None, 2, <<"ok", "ValueError", 0>>),
      Record(<< <<"gender", Str("F")>>, <<"age", Num(40)>> >>, "ok", "ok", 650) }

\* lines 671-679: request.get_json(); an empty body is answered before the
\* predictor is read.  checked and seen are what the thread has read of the
\* predictor: in the handler (line 681) and in predict_single_patient.
Arrive(t) ==
    \E data \in ServedBodies :
        /\ request[t].pc = "idle"
        /\ request' = [request EXCEPT ![t] =
                          [ pc |-> IF data.kind = "empty" THEN "reply" ELSE "check",
                            data |-> data, checked |-> NoPredictor,
                            seen |-> NoPredictor ]]
        /\ UNCHANGED <<predictor, response>>

\* the frame after line 681 has read predictor and predictor.is_loaded; a body that
\* is no mapping fails at line 689, before predict_single_patient is called
Checked(frame, p) ==
    [frame EXCEPT !.checked.exists = p.exists, !.checked.is_loaded = p.is_loaded,
                  !.pc = IF Ready(p) /\ frame.data.kind = "dict"
                         THEN "prepare" ELSE "reply"]

\* line 681: if not predictor or not predictor.is_loaded
CheckLoaded(t) ==
    /\ request[t].pc = "check"
    /\ request' = [request EXCEPT ![t] = Checked(request[t], predictor)]
    /\ UNCHANGED <<predictor, response>>

\* the frame whose view of the predictor is now v: on to pc when the call has not
\* raised so far, to the handler's except clauses when it has
Read(frame, v, pc, raised) ==
    [frame EXCEPT !.seen = v, !.pc = IF raised THEN "reply" ELSE pc]

\* the frame after lines 134-138 have read is_loaded, model (line 100) and scaler
\* (line 116)
Prepared(frame, v) ==
    Read(frame, v, "predict",
         ~v.is_loaded \/ ~PrepareData(v, WithId(frame.data, <<"API_Patient">>)).ok)

\* prepare_data as it would be if it kept the columns of the record it prepared
\* in self.feature_names
PrepareReadKeepingNames(t) ==
    /\ request[t].pc = "prepare"
    /\ request' = [request EXCEPT ![t] =
                      Prepared(request[t],
                               [request[t].seen EXCEPT
                                   !.exists = TRUE,
                                   !.is_loaded = predictor.is_loaded,
                                   !.model = predictor.model,
                                   !.scaler = predictor.scaler])]
    /\ predictor' = [predictor EXCEPT
                        !.feature_names = Some(Dropped(Keys(request[t].data)))]
    /\ UNCHANGED response

\* lines 134-138: the is_loaded test and prepare_data; nothing is assigned to self
PrepareRead(t) ==
    /\ request[t].pc = "prepare"
    /\ request' = [request EXCEPT ![t] =
                      Prepared(request[t],
                               [request[t].seen EXCEPT
                                   !.exists = TRUE,
                                   !.is_loaded = predictor.is_loaded,
                                   !.model = predictor.model,
                                   !.scaler = predictor.scaler])]
    /\ UNCHANGED <<predictor, response>>

\* the frame after lines 141-142 have read model and optimal_threshold
Predicted(frame, v) ==
    Read(frame, v, "explain",
         ~PredictSinglePatient(v, WithId(frame.data, <<"API_Patient">>), FALSE).ok)

\* lines 141-178: predict_proba, the labels and the result
PredictRead(t) ==
    /\ request[t].pc = "predict"
    /\ request' = [request EXCEPT ![t] =
                      Predicted(request[t],
                                [request[t].seen EXCEPT
                                    !.model = predictor.model,
                                    !.optimal_threshold = predictor.optimal_threshold])]
    /\ UNCHANGED <<predictor, response>>

\* lines 181-183: analyze_feature_importance reads feature_names (line 253) and
\* model (lines 264-267, 291, 351-354)
ExplainRead(t) ==
    /\ request[t].pc = "explain"
    /\ request' = [request EXCEPT ![t] =
                      Read(request[t],
                           [request[t].seen EXCEPT
                               !.model = predictor.model,
                               !.feature_names = predictor.feature_names],
                           "reply", FALSE)]
    /\ UNCHANGED <<predictor, response>>

\* lines 673-718: return jsonify(...), the answer made from what the thread has read
Reply(t) ==
    /\ request[t].pc = "reply"
    /\ request' = [request EXCEPT ![t].pc = "done"]
    /\ response' = [response EXCEPT ![t] =
                       IF request[t].data.kind = "empty" \/ ~Ready(request[t].checked)
                       THEN PredictResponse(request[t].checked, request[t].data)
                       ELSE PredictLoaded(request[t].seen, request[t].data)]
    /\ UNCHANGED predictor

\* the response has gone out; the thread takes the next request
Finish(t) ==
    /\ request[t].pc = "done"
    /\ request' = [request EXCEPT ![t] = [ pc |-> "idle" ]]
    /\ response' = [response EXCEPT ![t] = NoRequest]
    /\ UNCHANGED predictor

\* the server as app.run starts it: the model loaded, no request in any thread
ServingInit ==
    /\ predictor \in ServedPredictors
    /\ request = [t \in Threads |-> [ pc |-> "idle" ]]
    /\ response = [t \in Threads |-> NoRequest]

ServingNext ==
    \E t \in Threads :
        \/ Arrive(t)
        \/ CheckLoaded(t)
        \/ PrepareRead(t)
        \/ PredictRead(t)
        \/ ExplainRead(t)
        \/ Reply(t)
        \/ Finish(t)

Serving == ServingInit /\ [][ServingNext]_vars

(***************************************************************************)
(* Properties.                                                             *)
(***************************************************************************)
\* the records predict_single_patient returned in the response at hand
Returned ==
    IF response.endpoint = "/predict" /\ response.status = "success"
    THEN { response.result }
    ELSE IF response.endpoint \in {"/predict_batch", "/upload_predict"}
            /\ response.status = "success"
    THEN { response.results[k] : k \in { j \in 1..Len(response.results) :
                                           response.results[j].status = None } }
    ELSE IF response.endpoint = "predict_batch()" /\ response.ok
    THEN { response.results[k] : k \in { j \in 1..Len(response.results) :
                                           response.results[j].risk_level[2] # "ERROR" } }
    ELSE {}

\* C1: in every record predict_single_patient returns, prediction_optimal_threshold
\* is 1 exactly when readmission_probability >= optimal_threshold_used, which is the
\* predictor's threshold, prediction_default_threshold is 1 exactly when
\* readmission_probability >= 0.5, and both labels are 0 or 1.
C1_LabelsFollowThresholds ==
    \A r \in Returned :
        /\ r.optimal_threshold_used = predictor.optimal_threshold
        /\ r.prediction_optimal_threshold \in {0, 1}
        /\ r.prediction_default_threshold \in {0, 1}
        /\ (r.prediction_optimal_threshold = 1)
             <=> (Val(r.readmission_probability) >= Val(r.optimal_threshold_used))
        /\ (r.prediction_default_threshold = 1)
             <=> (Val(r.readmission_probability) >= 500)

\* a probability equal to the trained threshold: label 1 by it, 0 by the default
C1_Witness ==
    /\ response.endpoint = "/predict"
    /\ response.status = "success"
    /\ response.result.readmission_probability = Some(286)
    /\ response.result.optimal_threshold_used = Some(286)
    /\ response.result.prediction_optimal_threshold = 1
    /\ response.result.prediction_default_threshold = 0

\* C2: in every success response of /predict_batch and /upload_predict,
\* successful_predictions + failed_predictions = total_patients and
\* high_risk + moderate_risk + low_risk + errors = total_patients.
C2_CountsAddUp ==
    (response.endpoint \in {"/predict_batch", "/upload_predict"}
        /\ response.status = "success")
    => /\ response.successful_predictions + response.failed_predictions
            = response.total_patients
       /\ response.summary.high_risk + response.summary.moderate_risk
            + response.summary.low_risk + response.summary.errors
            = response.total_patients
       /\ response.total_patients =
            Len(IF response.endpoint = "/predict_batch"
                THEN request.data.patients ELSE request.upload.rows)

\* a batch in which one entry failed, one came out MODERATE or LOW and one higher
C2_Witness ==
    /\ response.endpoint = "/predict_batch"
    /\ response.status = "success"
    /\ response.failed_predictions >= 1
    /\ response.summary.low_risk >= 1
    /\ response.summary.high_risk + response.summary.moderate_risk >= 1

\* C3: the risk band of a returned record is CRITICAL for p >= 0.8, VERY HIGH for
\* 0.6 <= p < 0.8, HIGH for 0.4 <= p < 0.6, MODERATE for 0.2 <= p < 0.4 and LOW
\* for p < 0.2.
C3_RiskBands ==
    \A r \in Returned :
        LET q == Val(r.readmission_probability)
            band == r.risk_level[2]
        IN  /\ (band = "CRITICAL") <=> (q >= 800)
            /\ (band = "VERY HIGH") <=> (600 <= q /\ q < 800)
            /\ (band = "HIGH") <=> (400 <= q /\ q < 600)
            /\ (band = "MODERATE") <=> (200 <= q /\ q < 400)
            /\ (band = "LOW") <=> (q < 200)

\* a probability of exactly 0.6 is in the upper band
C3_Witness ==
    /\ response.endpoint = "/predict"
    /\ response.status = "success"
    /\ response.result.readmission_probability = Some(600)
    /\ response.result.risk_level[2] = "VERY HIGH"

\* the patients list of the /predict_batch request at hand, when it has one
BatchList ==
    IF request.endpoint = "/predict_batch" /\ request.data.kind = "dict"
       /\ request.data.is_list
    THEN Some(request.data.patients) ELSE None

AllMappings(patients) == \A k \in 1..Len(patients) : patients[k].kind = "dict"

\* C4 as claimed: every /predict_batch request with 101 or more entries is answered
\* with HTTP 400 and no prediction is made; one with exactly 100 entries is not
\* rejected for its size.
C4_Original ==
    BatchList # None =>
        /\ Len(Val(BatchList)) >= 101
             => (response.code = 400 /\ response.invocations = 0)
        /\ Len(Val(BatchList)) = 100
             => ~(response.status = "error" /\ response.message = "Batch size too large")

\* C4 as amended: a /predict_batch request with 101 or more entries never leads to a
\* prediction; it is answered with HTTP 400 (batch too large) when the predictor is
\* loaded and with HTTP 500 (model not loaded) when it is not.  A request with exactly
\* 100 entries is never rejected for its size, and with a loaded predictor the loop
\* runs over it: 100 results come back unless an entry is no mapping.
C4_OversizedBatchRejected ==
    BatchList # None =>
        /\ Len(Val(BatchList)) >= 101
             => /\ response.invocations = 0
                /\ response.status = "error"
                /\ Ready(predictor)
                     => (response.code = 400 /\ response.message = "Batch size too large")
                /\ ~Ready(predictor)
                     => (response.code = 500 /\ response.message = "Model not loaded")
        /\ Len(Val(BatchList)) = 100
             => /\ ~(response.status = "error" /\ response.message = "Batch size too large")
                /\ (Ready(predictor) /\ AllMappings(Val(BatchList)))
                     => /\ response.code = 200
                        /\ Len(response.results) = 100
                        /\ response.invocations = 100

\* 101 entries sent to a loaded predictor
C4_Witness ==
    /\ BatchList # None
    /\ Len(Val(BatchList)) = 101
    /\ Ready(predictor)
    /\ response.code = 400

\* C5: while the predictor is absent or not loaded, POST /predict with a body is
\* answered with HTTP 500, status error, pointing to /health, without a call of the
\* predictor, and GET /health reports model_loaded = false.
C5_NotLoadedPredict ==
    ~Ready(predictor) =>
        /\ (request.endpoint = "/predict" /\ request.data.kind # "empty")
             => /\ response.code = 500
                /\ response.status = "error"
                /\ response.message = "Model not loaded"
                /\ response.invocations = 0
        /\ request.endpoint = "/health"
             => (response.model_loaded = FALSE /\ response.invocations = 0)

\* a record sent to a predictor object whose load failed
C5_Witness ==
    /\ predictor.exists
    /\ ~predictor.is_loaded
    /\ request.endpoint = "/predict"
    /\ request.data.kind = "dict"
    /\ response.code = 500

\* the request at hand passes its endpoint's input validation
PassesValidation ==
    CASE request.endpoint = "/predict" -> request.data.kind # "empty"
      [] request.endpoint = "/predict_batch" ->
            /\ BatchList # None
            /\ Len(Val(BatchList)) \in 1..100
      [] request.endpoint = "/upload_predict" ->
            /\ request.upload.has_file
            /\ LowerStr(SplitExt(request.upload.filename)) \in
                 { <<".", "c", "s", "v">>, <<".", "x", "l", "s">>,
                   <<".", "x", "l", "s", "x">> }
            /\ request.upload.readable
            /\ Len(request.upload.rows) \in 1..1000
      [] request.endpoint \in {"/model_info", "/stats"} -> TRUE
      [] OTHER -> FALSE

\* C6 as claimed: while the model is not loaded, /predict, /predict_batch,
\* /upload_predict, /model_info and /stats answer every request that passes input
\* validation with HTTP 500.
C6_Claim ==
    (~Ready(predictor) /\ PassesValidation) => response.code = 500

\* the endpoints of the application
Endpoints ==
    { "/", "/health", "/predict", "/predict_batch", "/upload_predict", "/example",
      "/model_info", "/stats" }

\* C7 as claimed: every response of every endpoint has status success or error.
C7_Original ==
    response.endpoint \in Endpoints => response.status \in {"success", "error"}

\* C7 as amended: every response of every endpoint other than /health has status
\* success or error; the response of /health has status healthy when the model is
\* loaded and unhealthy when it is not.
C7_StatusField ==
    /\ response.endpoint \in Endpoints \ {"/health"}
         => response.status \in {"success", "error"}
    /\ response.endpoint = "/health"
         => response.status = (IF predictor.exists /\ predictor.is_loaded
                               THEN "healthy" ELSE "unhealthy")

\* /health asked of a predictor object that is not loaded
C7_Witness ==
    /\ response.endpoint = "/health"
    /\ predictor.exists
    /\ response.status = "unhealthy"

\* the entries the loop of the request at hand runs over, when it gets that far
LoopEntries ==
    IF BatchList # None /\ Ready(predictor) /\ Len(Val(BatchList)) \in 1..100
    THEN Val(BatchList)
    ELSE IF request.endpoint = "/upload_predict" /\ Ready(predictor) /\ PassesValidation
    THEN request.upload.rows
    ELSE <<>>

IndexOf(r) == IF request.endpoint = "/predict_batch" THEN r.batch_index ELSE r.file_index

\* C8 as claimed: whatever the entries are, mappings or not, the loop of
\* /predict_batch and /upload_predict ends in a success response with one result per
\* entry, in input order, the k-th with index k - 1, a failed entry as a record with
\* risk_level ERROR and both labels -1.
C8_Claim ==
    Len(LoopEntries) > 0 =>
        /\ response.status = "success"
        /\ Len(response.results) = Len(LoopEntries)
        /\ \A k \in 1..Len(LoopEntries) :
             LET r == response.results[k]
             IN  /\ IndexOf(r) = k - 1
                 /\ r.status = Some("error")
                      => /\ r.risk_level[2] = "ERROR"
                         /\ r.prediction_optimal_threshold = -1
                         /\ r.prediction_default_threshold = -1

\* C9: /upload_predict answers with HTTP 400, before any call of the predictor, every
\* upload without a file part, with an empty file name, with an extension that,
\* lower-cased, is none of .csv, .xls, .xlsx, with a table without data, or with more
\* than 1000 rows; a table of exactly 1000 rows is not rejected for its size and,
\* with a loaded predictor, all its rows are predicted.
C9_UploadValidation ==
    request.endpoint = "/upload_predict" =>
        LET u == request.upload
            ext == LowerStr(SplitExt(u.filename))
            good == ext \in { <<".", "c", "s", "v">>, <<".", "x", "l", "s">>,
                              <<".", "x", "l", "s", "x">> }
        IN  /\ ( \/ ~u.has_file
                 \/ u.filename = <<>>
                 \/ ~good
                 \/ Len(u.rows) = 0
                 \/ Len(u.rows) > 1000 )
                 => (response.code = 400 /\ response.invocations = 0)
            /\ (u.has_file /\ good /\ u.readable /\ Len(u.rows) = 1000)
                 => /\ ~(response.status = "error" /\ response.message = "File too large")
                    /\ Ready(predictor)
                         => /\ response.code = 200
                            /\ response.total_patients = 1000
                            /\ response.invocations = 1000

\* a file with an upper-case extension and 1001 rows
C9_Witness ==
    /\ request.endpoint = "/upload_predict"
    /\ Len(request.upload.rows) = 1001
    /\ response.code = 400
    /\ response.message = "File too large"

\* C10 as claimed: once is_loaded is true it stays true, and model and threshold stay
\* what they are, whatever is called later.
C10_Original ==
    [][predictor.is_loaded =>
          /\ predictor'.is_loaded
          /\ predictor'.model = predictor.model
          /\ predictor'.optimal_threshold = predictor.optimal_threshold]_vars

\* C10 as amended: once is_loaded is true it stays true and optimal_threshold keeps
\* its value under every later call; model, scaler, encoder and feature_names change
\* only in a later load_model call that reads an artifact, never in a load_model
\* call that could not read one, a prediction or a request.
C10_LoadedStaysLoaded ==
    [][predictor.is_loaded =>
          /\ predictor'.is_loaded
          /\ predictor'.optimal_threshold = predictor.optimal_threshold
          /\ ~(request'.endpoint = "load_model"
                  /\ request'.artifact.kind \in {"bare", "dict"})
               => predictor' = predictor]_vars

\* a load_model call that failed on a loaded predictor
C10_Witness ==
    /\ predictor.is_loaded
    /\ request.endpoint = "load_model"
    /\ request.artifact.kind \in {"missing", "corrupt"}
    /\ ~response.ret

\* C11: whenever load_model has returned False, is_loaded is false afterwards: the
\* value load_model returns equals is_loaded after the call.
C11_Claim ==
    request.endpoint \in {"load_model", "load_models"}
        => response.ret = predictor.is_loaded

\* the threshold C12 names for a first load: the constructor's when one was passed,
\* else the artifact's, else 0.5
ClaimedThreshold(passed, art) ==
    IF passed # None THEN passed
    ELSE IF art.kind = "dict" /\ art.optimal_threshold # None THEN art.optimal_threshold
    ELSE Some(DefaultThreshold)

\* C12: after a successful load_model on a predictor that was not loaded before, the
\* threshold is the constructor's value when one was passed, otherwise the artifact's
\* bundled optimal_threshold, and 0.5 only when neither place had one; this for every
\* value in [0,1], 0 included.  load_models passes 0.286 to the constructor.
C12_Claim ==
    [][/\ (/\ predictor.exists
            /\ ~predictor.is_loaded
            /\ request'.endpoint = "load_model"
            /\ response'.ret)
           => predictor'.optimal_threshold =
                  ClaimedThreshold(predictor.optimal_threshold, request'.artifact)
       /\ (request'.endpoint = "load_models" /\ response'.ret)
           => predictor'.optimal_threshold =
                  ClaimedThreshold(Some(TrainedThreshold), request'.artifact)]_vars

\* the columns of a record other than the four identifier and label columns
C13_Others(keys) ==
    LET other(c) == c \notin { "encounter_id", "patient_nbr", "patient_id", "readmitted" }
    IN  SelectSeq(keys, other)

\* a /predict request that reached predict_single_patient
PredictCalled ==
    /\ request.endpoint = "/predict"
    /\ request.data.kind = "dict"
    /\ "X_prepared" \in DOMAIN response

\* C13: the row that prepare_data hands on holds none of encounter_id, patient_nbr,
\* patient_id, readmitted, and holds the other columns of the record in their order:
\* all of them before the width is cut, a prefix of them after.
C13_IdentifiersDropped ==
    (PredictCalled /\ response.X_prepared # None)
    => LET X == Val(response.X_prepared)
           others == C13_Others(Keys(request.data))
       IN  /\ \A i \in 1..Len(X) :
                 X[i] \notin { "encounter_id", "patient_nbr", "patient_id", "readmitted" }
           /\ Len(X) <= Len(others)
           /\ X = SubSeq(others, 1, Len(X))
           /\ ~DeclaresCount(predictor) => X = others

\* a record with encounter_id, readmitted and patient_nbr between its features, and
\* the patient_id that /predict added, of which the three features were handed on
C13_Witness ==
    /\ PredictCalled
    /\ response.code = 200
    /\ Has(request.data, "encounter_id")
    /\ Has(request.data, "readmitted")
    /\ response.result.patient_id = <<"API_Patient">>
    /\ response.X_prepared = Some(<<"age", "time_in_hospital", "num_medications">>)

\* C14: with an expected count N and W columns left after the drop, W < N makes
\* prepare_data raise, /predict answers 400 and the classifier is not called; W > N
\* hands on the first N columns in order; W = N, or a classifier without a count,
\* hands on the row as it is.
C14_WidthAgainstCount ==
    PredictCalled
    => LET others == C13_Others(Keys(request.data))
           W == Len(others)
           N == Val(Val(predictor.model).n_features_in)
           scaled == predictor.scaler = None \/ request.data.transform = "ok"
       IN  /\ (DeclaresCount(predictor) /\ W < N)
               => /\ response.code = 400
                  /\ response.X_prepared = None
                  /\ ~response.model_called
           /\ (DeclaresCount(predictor) /\ W > N /\ scaled)
               => /\ response.X_prepared = Some(SubSeq(others, 1, N))
                  /\ response.model_called
           /\ (DeclaresCount(predictor) /\ W = N /\ scaled)
               => response.X_prepared = Some(others)
           /\ (~DeclaresCount(predictor) /\ scaled)
               => response.X_prepared = Some(others)

\* a record with one feature sent to a classifier that expects two
C14_Witness ==
    /\ PredictCalled
    /\ DeclaresCount(predictor)
    /\ Len(C13_Others(Keys(request.data))) < Val(Val(predictor.model).n_features_in)
    /\ response.code = 400
    /\ ~response.model_called

\* C15: the recommendation follows its own ladder: IMMEDIATE ACTION from 0.7, HIGH
\* PRIORITY from 0.4, STANDARD CARE from 0.2, ROUTINE below; so [0.7, 0.8) has
\* IMMEDIATE ACTION with band VERY HIGH and [0.6, 0.7) has HIGH PRIORITY with band
\* VERY HIGH.
C15_RecommendationLadder ==
    \A r \in Returned :
        LET proba == Val(r.readmission_probability)
        IN  /\ r.clinical_recommendation =
                 (IF proba >= 700 THEN "IMMEDIATE ACTION"
                  ELSE IF proba >= 400 THEN "HIGH PRIORITY"
                  ELSE IF proba >= 200 THEN "STANDARD CARE"
                  ELSE "ROUTINE")
            /\ (proba >= 700 /\ proba < 800)
                 => /\ r.clinical_recommendation = "IMMEDIATE ACTION"
                    /\ r.risk_level[2] = "VERY HIGH"
            /\ (proba >= 600 /\ proba < 700)
                 => /\ r.clinical_recommendation = "HIGH PRIORITY"
                    /\ r.risk_level[2] = "VERY HIGH"

\* a probability of 0.7: IMMEDIATE ACTION in band VERY HIGH
C15_Witness ==
    /\ response.endpoint = "/predict"
    /\ response.status = "success"
    /\ response.result.readmission_probability = Some(700)
    /\ response.result.clinical_recommendation = "IMMEDIATE ACTION"
    /\ response.result.risk_level[2] = "VERY HIGH"

\* the records that carry an explanation
Explained == { r \in Returned : "baseline_risk" \in DOMAIN r }

Sent ==
    IF Has(request.data, "patient_id") THEN request.data
    ELSE Put(request.data, "patient_id", <<"API_Patient">>)

\* a /predict request that was answered with an explanation
PredictExplained ==
    /\ PredictCalled
    /\ response.code = 200

\* how many entries of the list are about the feature
C17_Entries(contributions, feature_name) ==
    Cardinality({ k \in 1..Len(contributions) :
                    contributions[k].feature = feature_name })

\* C17 as claimed: one entry for each feature that has a position in the importance
\* vector and is a key of the record, none for a feature beyond the end of the
\* vector or any other, and an empty list without importances.
C17_Original ==
    PredictExplained
    => LET contributions == response.result.feature_contributions
           names == FeatureNames(predictor, Sent)
       IN  IF Val(predictor.model).feature_importances = None
           THEN contributions = <<>>
           ELSE \A i \in 1..Len(names) :
                  C17_Entries(contributions, names[i]) =
                    (IF /\ Has(Sent, names[i])
                        /\ i <= Len(Val(Val(predictor.model).feature_importances))
                     THEN 1 ELSE 0)

\* C17 as amended: one entry for each name of the feature-name list (the artifact's
\* feature_names, the keys of the record when it bundles none) that is a key of the
\* record, and no other entry; a name beyond the end of the importance vector has an
\* entry too, with importance 0; without importances the list is empty.
C17_OneEntryPerKnownName ==
    PredictExplained
    => LET contributions == response.result.feature_contributions
           names == FeatureNames(predictor, Sent)
       IN  IF Val(predictor.model).feature_importances = None
           THEN contributions = <<>>
           ELSE LET importances == Val(Val(predictor.model).feature_importances)
                IN  /\ \A i \in 1..Len(names) :
                          C17_Entries(contributions, names[i]) =
                              (IF Has(Sent, names[i]) THEN 1 ELSE 0)
                    /\ \A k \in 1..Len(contributions) :
                          \E i \in 1..Len(names) :
                              /\ contributions[k].feature = names[i]
                              /\ contributions[k].importance =
                                   (IF i <= Len(importances) THEN importances[i] ELSE 0)

\* a record with more keys than the classifier has importances
C17_Witness ==
    /\ PredictExplained
    /\ predictor.feature_names = None
    /\ Val(predictor.model).feature_importances # None
    /\ Len(Sent.items) > Len(Val(Val(predictor.model).feature_importances))
    /\ Len(response.result.feature_contributions) = Len(Sent.items)

\* score >= 0 on floats: false for nan
C18_AtLeastZero(score) == ~IsNaN(score) /\ score[2] >= 0

\* C18: the list is in non-increasing order of contribution_score, every score is
\* >= 0, and the score is 0 for a feature with importance 0 and for a numeric value
\* equal to its baseline that is not 0.
C18_Claim ==
    PredictExplained
    => LET contributions == response.result.feature_contributions
       IN  /\ \A k \in 1..Len(contributions) :
                 LET c == contributions[k]
                 IN  /\ C18_AtLeastZero(c.contribution_score)
                     /\ c.importance = 0 => c.contribution_score = Num(0)
                     /\ (c.baseline_value # 0 /\ c.value = Num(c.baseline_value))
                          => c.contribution_score = Num(0)
           /\ \A j, k \in 1..Len(contributions) :
                 j < k => ~Less(contributions[j].contribution_score,
                                contributions[k].contribution_score)

\* the features of the entries of one kind, in the order of the list
C19_OfKind(contributions, risk_impact) ==
    LET of_kind(c) == c.risk_impact = risk_impact
        found == SelectSeq(contributions, of_kind)
    IN  [ k \in 1..Len(found) |-> found[k].feature ]

C19_FirstThree(names) == SubSeq(names, 1, IF Len(names) < 3 THEN Len(names) ELSE 3)

\* C19 as claimed: the text names the three highest-scoring INCREASES contributions
\* and the three highest-scoring DECREASES contributions of the whole list, all of
\* them when there are fewer than three.
C19_Original ==
    PredictExplained
    => LET contributions == response.result.feature_contributions
           text == response.result.explanation_text
       IN  /\ text.increasing = C19_FirstThree(C19_OfKind(contributions, "INCREASES"))
           /\ text.decreasing = C19_FirstThree(C19_OfKind(contributions, "DECREASES"))

\* C19 as amended: the text names at most three INCREASES and at most three DECREASES
\* contributions, which are the highest-scoring of their kind among the five
\* highest-scoring contributions of the record.
C19_TopOfFirstFive ==
    PredictExplained
    => LET contributions == response.result.feature_contributions
           first_five == SubSeq(contributions, 1,
                                IF Len(contributions) < 5 THEN Len(contributions) ELSE 5)
           text == response.result.explanation_text
       IN  /\ text.increasing = C19_FirstThree(C19_OfKind(first_five, "INCREASES"))
           /\ text.decreasing = C19_FirstThree(C19_OfKind(first_five, "DECREASES"))

\* seven contributions: the fifth is the one DECREASES factor named, the sixth is a
\* DECREASES contribution left out, and a fourth INCREASES contribution is left out
C19_Witness ==
    /\ PredictExplained
    /\ Len(response.result.feature_contributions) = 7
    /\ response.result.explanation_text.increasing =
           <<"num_medications", "num_lab_procedures", "number_diagnoses">>
    /\ response.result.explanation_text.decreasing = <<"num_procedures">>
    /\ response.result.feature_contributions[6].risk_impact = "DECREASES"

\* the identifiers C20 accepts for the row at a position: the cell of the identifier
\* column, or Patient_<n> with n the position or the label when there is none
C20_Identifiers(patients_df, position) ==
    IF HasColumn(patients_df, "patient_id") \/ HasColumn(patients_df, "encounter_id")
    THEN { PatientIds(patients_df)[position] }
    ELSE { <<"Patient", position - 1>> }
         \cup { <<"Patient", patients_df.index[position][2]>> }

\* C20: on a loaded predictor predict_batch returns, whatever the index labels of the
\* table, one record per row in the order of the rows; the record of a row has the
\* identifier of that row, and a row whose prediction raises has an error record
\* (probability nan, both labels -1, risk_level ERROR) while the rows after it are
\* processed.
C20_Claim ==
    (request.endpoint = "predict_batch()" /\ predictor.is_loaded)
    => /\ response.ok
       /\ Len(response.results) = Len(request.patients_df.rows)
       /\ \A k \in 1..Len(response.results) :
            LET r == response.results[k]
                row == request.patients_df.rows[k]
            IN  /\ r.patient_id \in C20_Identifiers(request.patients_df, k)
                /\ (row.predict # "ok")
                     => /\ r.risk_level[2] = "ERROR"
                        /\ r.readmission_probability = NaN
                        /\ r.prediction_optimal_threshold = -1
                        /\ r.prediction_default_threshold = -1


\* C21: after the model is loaded no step of a request writes the shared predictor
\* (model, scaler, encoder, feature_names, optimal_threshold, is_loaded), and under
\* every interleaving of the threads' steps each request is answered as it would be
\* if it ran alone.
C21_AnsweredAsAlone ==
    \A t \in Threads :
        request[t].pc = "done"
            => response[t] = PredictResponse(predictor, request[t].data)

C21_ReadOnlyServing == []C21_AnsweredAsAlone /\ [][predictor' = predictor]_vars

\* one thread has been answered with a prediction while the other is in the middle
\* of predict_single_patient for another record
C21_Witness ==
    /\ request[1].pc = "done"
    /\ response[1].status = "success"
    /\ request[2].pc = "explain"
    /\ request[2].data # request[1].data

\* C22: in every contribution entry and in global_feature_importance, the importance
\* reported for a feature is the model's weight of the column position at which the
\* feature's value was fed to the model, for every key order of the record and also
\* when the artifact bundles no feature_names.
C22_Claim ==
    (PredictExplained /\ Val(predictor.model).feature_importances # None)
    => LET importances == Val(Val(predictor.model).feature_importances)
           X_prepared == Val(response.X_prepared)
           contributions == response.result.feature_contributions
           global == Val(response.result.global_feature_importance)
       IN  \A j \in 1..Min(Len(X_prepared), Len(importances)) :
               /\ \A k \in 1..Len(contributions) :
                     contributions[k].feature = X_prepared[j]
                         => contributions[k].importance = importances[j]
               /\ \A i \in 1..Len(global) :
                     global[i][1] = X_prepared[j] => global[i][2] = importances[j]

\* C23: whenever is_loaded is true the model is not None: no artifact, bare object or
\* mapping, with or without a `model` key, gives a predictor that /health reports
\* as model_loaded = true while it holds no model object.
C23_Claim ==
    /\ predictor.is_loaded => predictor.model # None
    /\ (response.endpoint = "/health" /\ response.model_loaded)
          => predictor.model # None

\* C24: the identifier and label columns that prepare_data withholds from the model
\* (encounter_id, patient_nbr, patient_id, readmitted) never appear as a feature in
\* feature_contributions or in the explanation text, the patient_id that the
\* handlers add to a record without one included.
C24_Claim ==
    \A r \in Explained :
        /\ \A k \in 1..Len(r.feature_contributions) :
              r.feature_contributions[k].feature \notin columns_to_drop
        /\ \A k \in 1..Len(r.explanation_text.increasing) :
              r.explanation_text.increasing[k] \notin columns_to_drop
        /\ \A k \in 1..Len(r.explanation_text.decreasing) :
              r.explanation_text.decreasing[k] \notin columns_to_drop

\* C25: for a numeric feature with a named risk rule (age > 70, time_in_hospital > 7,
\* num_medications > 15, num_lab_procedures > 50, num_procedures > 3,
\* number_diagnoses > 8) the contribution's risk_impact is INCREASES only if the
\* value satisfies the rule; a value below the cutoff and below the baseline, such
\* as age 40, is never reported as INCREASES.
C25_Claim ==
    \A r \in Explained :
        \A k \in 1..Len(r.feature_contributions) :
            LET c == r.feature_contributions[k]
            IN  (/\ c.feature \in ComparedWithNumber
                 /\ c.value[1] = "num"
                 /\ c.risk_impact = "INCREASES")
                => c.value[2] > (CASE c.feature = "age" -> 70
                                   [] c.feature = "time_in_hospital" -> 7
                                   [] c.feature = "num_medications" -> 15
                                   [] c.feature = "num_lab_procedures" -> 50
                                   [] c.feature = "num_procedures" -> 3
                                   [] c.feature = "number_diagnoses" -> 8)

====
